---- MODULE Spec2Model ----
(***************************************************************************)
(* A model of get_player_stats.py: the command-line script that builds a   *)
(* basketball-reference URL, fetches the page, picks one stats table,      *)
(* filters its rows and columns and prints it with rich.                   *)
(*                                                                         *)
(* Python strings are TLA+ strings (TLC evaluates Len, SubSeq and \o on    *)
(* them).  A pandas DataFrame is a record                                  *)
(*     [columns |-> <<names>>, index |-> <<labels>>, values |-> <<rows>>]  *)
(* whose rows are positional sequences of cells aligned to the columns.    *)
(* A cell is NaN, a string or an integer.                                  *)
(***************************************************************************)
EXTENDS Integers, Sequences, FiniteSets, TLC

\* ------------------------------------------------------------------ bounds

\* Longest row sequence of the enumerated remove_rows inputs.
MaxRows == 3
\* Longest column sequence of the enumerated remove_stats inputs.
MaxCols == 3
\* Longest row sequence of the enumerated pprint_df inputs.
MaxRenderRows == 4
\* Largest disambiguation index n enumerated (besides 100).
MaxN == 11
\* Most tables a fetched page holds.
MaxTables == 6

\* ------------------------------------------------------- Python primitives

Min(a, b) == IF a < b THEN a ELSE b
Max(a, b) == IF a > b THEN a ELSE b

\* s[a:b] for 0 <= a <= b: Python clamps the slice to the string.
PySlice(s, a, b) == SubSeq(s, Min(a, Len(s)) + 1, Min(b, Len(s)))

\* sub in s, for strings.
StrContains(s, sub) ==
    \E i \in 1..(Len(s) - Len(sub) + 1) : SubSeq(s, i, i + Len(sub) - 1) = sub

Digits == "0123456789"

RECURSIVE NatStr(_)
NatStr(k) ==
    IF k < 10 THEN SubSeq(Digits, k + 1, k + 1)
    ELSE NatStr(k \div 10) \o SubSeq(Digits, (k % 10) + 1, (k % 10) + 1)

\* str(n) for an int.
IntStr(k) == IF k < 0 THEN "-" \o NatStr(0 - k) ELSE NatStr(k)

RECURSIVE Zeros(_)
Zeros(k) == IF k <= 0 THEN "" ELSE "0" \o Zeros(k - 1)

\* str.zfill(s, width): zeros go after a leading sign.
zfill(s, width) ==
    IF Len(s) >= width THEN s
    ELSE IF Len(s) > 0 /\ SubSeq(s, 1, 1) \in {"+", "-"}
         THEN SubSeq(s, 1, 1) \o Zeros(width - Len(s)) \o SubSeq(s, 2, Len(s))
         ELSE Zeros(width - Len(s)) \o s

LowerCase == "abcdefghijklmnopqrstuvwxyz"
UpperCase == "ABCDEFGHIJKLMNOPQRSTUVWXYZ"

CharUpper(c) ==
    IF \E i \in 1..Len(LowerCase) : SubSeq(LowerCase, i, i) = c
    THEN LET i == CHOOSE i \in 1..Len(LowerCase) : SubSeq(LowerCase, i, i) = c
         IN  SubSeq(UpperCase, i, i)
    ELSE c

CharLower(c) ==
    IF \E i \in 1..Len(UpperCase) : SubSeq(UpperCase, i, i) = c
    THEN LET i == CHOOSE i \in 1..Len(UpperCase) : SubSeq(UpperCase, i, i) = c
         IN  SubSeq(LowerCase, i, i)
    ELSE c

RECURSIVE StrLower(_)
StrLower(s) ==
    IF Len(s) = 0 THEN ""
    ELSE CharLower(SubSeq(s, 1, 1)) \o StrLower(SubSeq(s, 2, Len(s)))

\* str.capitalize(): first character upper-cased, the rest lower-cased.
capitalize(s) ==
    IF Len(s) = 0 THEN ""
    ELSE CharUpper(SubSeq(s, 1, 1)) \o StrLower(SubSeq(s, 2, Len(s)))

\* ------------------------------------------------------------ URL Builder

BaseUrl == "https://www.basketball-reference.com/players"

create_player_url_short(first_name, last_name, n) ==
    BaseUrl \o "/" \o PySlice(last_name, 0, 1) \o "/" \o PySlice(last_name, 0, 4)
        \o PySlice(first_name, 0, 2) \o zfill(IntStr(n), 2) \o ".html"

\* Defined when last_name is not empty (last_name[0] raises IndexError).
create_player_url(first_name, last_name, n) ==
    BaseUrl \o "/" \o PySlice(last_name, 0, 1) \o "/" \o PySlice(last_name, 0, 5)
        \o PySlice(first_name, 0, 2) \o zfill(IntStr(n), 2) \o ".html"

\* ------------------------------------------------------------- DataFrames

NaN == [t |-> "nan"]
S(s) == [t |-> "str", v |-> s]
I(k) == [t |-> "int", v |-> k]

\* pandas isna() of a cell.
isna(c) == c.t = "nan"

\* cell == s for a Python string s: NaN and numbers are unequal to every string.
CellEq(c, s) == c.t = "str" /\ c.v = s

\* str(e) of a cell, also what Series.astype(str) gives: NaN becomes 'nan'.
PyStr(c) == IF c.t = "nan" THEN "nan" ELSE IF c.t = "int" THEN IntStr(c.v) ELSE c.v

RECURSIVE FilterPos(_, _, _)
\* The elements of seq at the positions i..Len(seq) where keep is TRUE, in order.
FilterPos(seq, keep, i) ==
    IF i > Len(seq) THEN <<>>
    ELSE (IF keep[i] THEN <<seq[i]>> ELSE <<>>) \o FilterPos(seq, keep, i + 1)

NRows(df) == Len(df.index)

\* col in df.columns
HasColumn(df, col) == \E j \in 1..Len(df.columns) : df.columns[j] = col

\* df[col]: the column's cells by row position (KeyError when col is missing).
Column(df, col) ==
    LET j == CHOOSE j \in 1..Len(df.columns) : df.columns[j] = col
    IN  [i \in 1..NRows(df) |-> df.values[i][j]]

IndexWhere_first(df, mask) ==
    LET hit == {k \in 1..NRows(df) : mask[k]}
    IN  {df.index[i] : i \in {k \in hit : \A m \in hit : k <= m}}

\* df.index[mask]: the labels of the rows where the boolean mask is True.
IndexWhere(df, mask) == {df.index[i] : i \in {k \in 1..NRows(df) : mask[k]}}

\* df.drop(labels, inplace=True): every row whose label is in labels goes.
DropRows(df, labels) ==
    LET keep == [i \in 1..NRows(df) |-> df.index[i] \notin labels]
    IN  [columns |-> df.columns,
         index   |-> FilterPos(df.index, keep, 1),
         values  |-> FilterPos(df.values, keep, 1)]

\* df.drop(columns=col, axis=1, inplace=True): every column labelled col goes.
DropColumn(df, col) ==
    LET keep == [j \in 1..Len(df.columns) |-> df.columns[j] # col]
    IN  [columns |-> FilterPos(df.columns, keep, 1),
         index   |-> df.index,
         values  |-> [i \in 1..NRows(df) |-> FilterPos(df.values[i], keep, 1)]]

\* -------------------------------------------------------------- Row Filter

\* df['Lg'] != 'NBA'
OverseasMask(df) == [i \in 1..NRows(df) |-> ~CellEq(Column(df, "Lg")[i], "NBA")]

TeamSummaryMask_totals(df) ==
    [i \in 1..NRows(df) |->
        \/ StrContains(PyStr(Column(df, "Season")[i]), "season")
        \/ StrContains(PyStr(Column(df, "Season")[i]), "totals")]

\* df['Season'].astype(str).str.contains('season')
TeamSummaryMask(df) ==
    [i \in 1..NRows(df) |-> StrContains(PyStr(Column(df, "Season")[i]), "season")]

BlankMask_none(df) == [i \in 1..NRows(df) |-> FALSE]

\* df['Season'].isna()
BlankMask(df) == [i \in 1..NRows(df) |-> isna(Column(df, "Season")[i])]

\* The three in-place drops, in the order of the code.
remove_rows(df) ==
    LET d1 == DropRows(df, IndexWhere(df, OverseasMask(df)))
        d2 == DropRows(d1, IndexWhere(d1, TeamSummaryMask(d1)))
    IN  DropRows(d2, IndexWhere(d2, BlankMask(d2)))

\* remove_rows raises KeyError on a table without the column Lg or Season.
RowFilterKeys(df) == HasColumn(df, "Lg") /\ HasColumn(df, "Season")

\* ----------------------------------------------------------- Column Filter

DropCols == <<"2P", "3P", "DRB", "FG", "FT", "Lg">>

IsUnnamed_prefix(col) == Len(col) >= 8 /\ SubSeq(col, 1, 8) = "Unnamed:"

\* 'Unnamed:' in col
IsUnnamed(col) == StrContains(col, "Unnamed:")

\* drop_cols after  drop_cols += [col for col in df.columns if 'Unnamed:' in col]
drop_cols(df) ==
    DropCols \o FilterPos(df.columns,
                          [j \in 1..Len(df.columns) |-> IsUnnamed(df.columns[j])], 1)

RECURSIVE DropEach(_, _)
\* for col in cols: if col in df.columns: df.drop(columns=col, ...)
DropEach(df, cols) ==
    IF cols = <<>> THEN df
    ELSE DropEach(IF HasColumn(df, Head(cols)) THEN DropColumn(df, Head(cols)) ELSE df,
                  Tail(cols))

remove_stats(df) == DropEach(df, drop_cols(df))

\* The copy of the script at the repository root drops another list.
RootDropCols == <<"Lg", "FG", "3PA", "FT", "DRB">>

root_remove_stats(df) == DropEach(df, RootDropCols)

\* ---------------------------------------------------------- Table Selector

table_map == [avg |-> 0, tot |-> 2, adv |-> 4]

table_idx_of_regular(stats, playoffs) == table_map[stats]

\* table_map[stats] + int(playoffs), a 0-based Python list index.
table_idx_of(stats, playoffs) == table_map[stats] + (IF playoffs THEN 1 ELSE 0)

\* tables[idx] raises IndexError outside the list.
InRange(tables, idx) == idx < Len(tables)

\* ---------------------------------------------------------------- Renderer

title_of_swapped(first_name, last_name, stats, playoffs) ==
    capitalize(first_name) \o " " \o capitalize(last_name) \o " "
        \o (IF playoffs THEN "Regular Season" ELSE "Playoffs") \o " " \o stats

title_of(first_name, last_name, stats, playoffs) ==
    capitalize(first_name) \o " " \o capitalize(last_name) \o " "
        \o (IF ~playoffs THEN "Regular Season" ELSE "Playoffs") \o " " \o stats

\* The style of the row at 0-based position i of the str-converted rows.
row_style(row, i) ==
    IF row[1] = "Career" THEN "steel_blue1"
    ELSE IF i % 2 = 0 THEN "bright_cyan"
    ELSE "light_cyan1"

pprint_df_by_label(df, first_name, last_name, stats, playoffs) ==
    LET rows == [i \in 1..NRows(df) |->
                    [j \in 1..Len(df.columns) |-> PyStr(df.values[i][j])]]
    IN  [title   |-> title_of(first_name, last_name, stats, playoffs),
         columns |-> df.columns,
         rows    |-> [i \in 1..Len(rows) |->
                         [cells |-> rows[i], style |-> row_style(rows[i], df.index[i])]]]

\* The rich Table that pprint_df prints.
pprint_df(df, first_name, last_name, stats, playoffs) ==
    LET rows == [i \in 1..NRows(df) |->
                    [j \in 1..Len(df.columns) |-> PyStr(df.values[i][j])]]
    IN  [title   |-> title_of(first_name, last_name, stats, playoffs),
         columns |-> df.columns,
         rows    |-> [i \in 1..Len(rows) |->
                         [cells |-> rows[i], style |-> row_style(rows[i], i - 1)]]]

\* ------------------------------------------- what pd.read_html can return

\* A row of a player table, by what the Row Filter reads of it.
K(lg, season) == [lg |-> lg, season |-> season]

\* The DataFrame read_html builds: a RangeIndex 0..n-1, the Lg and Season cells
\* of each row as given, columns without a header all NaN, numbers elsewhere.
MkDf(columns, kinds) ==
    [columns |-> columns,
     index   |-> [i \in 1..Len(kinds) |-> i - 1],
     values  |-> [i \in 1..Len(kinds) |->
                    [j \in 1..Len(columns) |->
                       IF columns[j] = "Lg" THEN kinds[i].lg
                       ELSE IF columns[j] = "Season" THEN kinds[i].season
                       ELSE IF IsUnnamed(columns[j]) THEN NaN
                       ELSE I(10 * i + j)]]]

SeqsUpTo(set, n) == UNION {[1..k -> set] : k \in 0..n}

RowKinds ==
    {K(S("NBA"), S("2019-20")), K(S("NBA"), S("2020-21")), K(S("Spain"), S("2019-20")),
     K(S("NBA"), S("2-team totals")), K(S("NBA"), S("2 seasons")),
     K(S("NBA"), S("Career")), K(S("NBA"), NaN), K(NaN, NaN)}

\* The table of the spec's Row Filter example (League is the column Lg).
ExampleRows ==
    MkDf(<<"Season", "Lg">>,
         <<K(S("NBA"), S("2020-21")), K(S("Spain"), S("2019-20")),
           K(S("NBA"), S("2-team totals")), K(NaN, NaN), K(S("NBA"), S("Career"))>>)

\* The same table with the summary row as the site labels it.
ExampleSeasons ==
    MkDf(<<"Season", "Lg">>,
         <<K(S("NBA"), S("2020-21")), K(S("Spain"), S("2019-20")),
           K(S("NBA"), S("2 seasons")), K(NaN, NaN), K(S("NBA"), S("Career"))>>)

\* A table of another kind on the page: no Lg, no Season.
Last5Games == MkDf(<<"Date", "Team", "Opp">>, <<K(NaN, NaN), K(NaN, NaN)>>)

RowInputs ==
    {MkDf(cols, ks) : cols \in {<<"Season", "Age", "Lg">>, <<"Lg", "FG", "Season">>},
                      ks \in SeqsUpTo(RowKinds, MaxRows)}
        \cup {ExampleRows, ExampleSeasons, Last5Games}

ColNames ==
    {"Season", "Lg", "FG", "FGA", "2P", "2PA", "3P", "3PA", "FT", "DRB",
     "Unnamed: 12", "Tm Unnamed: 3", "Unnamed"}

\* The columns of the spec's Column Filter example.
ExampleCols == <<"Season", "Lg", "FG", "FGA", "2P", "2PA", "Unnamed: 12">>

AvgCols ==
    <<"Season", "Age", "Lg", "FG", "FGA", "3P", "3PA", "2P", "2PA", "FT", "DRB", "PTS">>

TwoRows == <<K(S("NBA"), S("2020-21")), K(S("NBA"), S("Career"))>>

ColInputs ==
    {MkDf(cols, TwoRows) :
        cols \in {c \in SeqsUpTo(ColNames, MaxCols) :
                    \A a, b \in 1..Len(c) : c[a] = c[b] => a = b}}
        \cup {MkDf(ExampleCols, TwoRows), MkDf(AvgCols, TwoRows), MkDf(ExampleCols, <<>>)}

RenderKinds == {K(S("NBA"), S("2020-21")), K(S("NBA"), S("Career")), K(S("NBA"), NaN)}

\* Tables as typed, and tables as the two filters leave them (labels with gaps).
RenderInputs ==
    {MkDf(<<"Season", "Age">>, ks) : ks \in SeqsUpTo(RenderKinds, MaxRenderRows)}
        \cup {remove_stats(remove_rows(t)) : t \in {u \in RowInputs : RowFilterKeys(u)}}

\* The tables a fetched page is made of.
Catalog ==
    <<MkDf(AvgCols, TwoRows),
      ExampleRows,
      MkDf(<<"Season", "Lg", "PER", "Unnamed: 19", "WS">>,
           <<K(S("NBA"), S("2019-20")), K(S("Spain"), S("2019-20")),
             K(S("NBA"), S("2020-21")), K(S("NBA"), S("Career")), K(NaN, NaN),
             K(S("NBA"), S("2 seasons"))>>),
      Last5Games,
      MkDf(AvgCols, <<>>)>>

\* A page of len tables: the catalog from position rot on, cyclically.
PageOf(len, rot) == [i \in 1..len |-> Catalog[((i - 1 + rot) % Len(Catalog)) + 1]]

Contents == {PageOf(len, rot) : len \in 0..MaxTables, rot \in 0..(Len(Catalog) - 1)}

StatusCodes == {200, 404, 429, 500}

\* What requests.get can return: a body of tables with 200, an error otherwise.
Responses ==
    {[status_code |-> 200, content |-> c] : c \in Contents}
        \cup {[status_code |-> sc, content |-> <<>>] : sc \in StatusCodes \ {200}}

StatKeys == {"avg", "tot", "adv"}

FirstNames == {"lebron", "al", "j", "", "Kobe"}
LastNames == {"james", "wu", "o", "", "Bryant", "antetokounmpo"}
Indices == (-1..MaxN) \cup {100}

\* What get_args returns to main: names as the URL Builder takes them, not empty
\* (the empty last name is called on create_player_url alone, below).
ArgsSet ==
    [first_name : {"lebron", "al"}, last_name : {"james", "wu"},
     stats : StatKeys, playoffs : BOOLEAN, n : {1, 12}]

NoDf == [columns |-> <<>>, index |-> <<>>, values |-> <<>>]
NoPage == [status_code |-> 0, content |-> <<>>]

\* ------------------------------------------------------------------ state

VARIABLES
    args,       \* main: what get_args returned
    pc,         \* where the invocation is
    url,        \* get_player_stats: url
    page,       \* get_tables: the response of requests.get
    tables,     \* get_player_stats: the list read_html returned
    table_idx,  \* get_player_stats: table_idx
    df,         \* get_player_stats: df, the selected table, changed in place
    gets,       \* number of HTTP GETs issued
    stdout,     \* what was printed, in order
    trace,      \* the stages that ran, in order
    test        \* the function-level harness: the call made and what it returned

vars == <<args, pc, url, page, tables, table_idx, df, gets, stdout, trace, test>>

mainVars == <<args, pc, url, page, tables, table_idx, df, gets, stdout, trace>>

Idle ==
    /\ pc = "start"
    /\ url = ""
    /\ page = NoPage
    /\ tables = <<>>
    /\ table_idx = 0
    /\ df = NoDf
    /\ gets = 0
    /\ stdout = <<>>
    /\ trace = <<>>
    /\ test = [fn |-> "none"]

\* ------------------------------------------------------ main(), step by step

Init == args \in ArgsSet /\ Idle

\* create_player_url(first_name, last_name, n); last_name[0] of '' raises.
CreatePlayerUrl ==
    /\ pc = "start"
    /\ trace' = Append(trace, "URL Builder")
    /\ IF args.last_name = ""
       THEN pc' = "IndexError" /\ url' = url
       ELSE /\ url' = create_player_url(args.first_name, args.last_name, args.n)
            /\ pc' = "requests_get"
    /\ UNCHANGED <<args, page, tables, table_idx, df, gets, stdout, test>>

\* page = requests.get(url)
RequestsGet ==
    /\ pc = "requests_get"
    /\ \E r \in Responses : page' = r
    /\ gets' = gets + 1
    /\ trace' = Append(trace, "Page Fetcher")
    /\ pc' = "check_status"
    /\ UNCHANGED <<args, url, tables, table_idx, df, stdout, test>>

ExitOnStatus_continue ==
    /\ pc = "check_status"
    /\ page.status_code # 200
    /\ stdout' = Append(stdout, [kind |-> "text",
                                 text |-> "ERROR status code: " \o IntStr(page.status_code)])
    /\ tables' = page.content
    /\ pc' = "select"
    /\ UNCHANGED <<args, url, page, table_idx, df, gets, trace, test>>

\* if page.status_code != 200: print(...); sys.exit()
ExitOnStatus ==
    /\ pc = "check_status"
    /\ page.status_code # 200
    /\ stdout' = Append(stdout, [kind |-> "text",
                                 text |-> "ERROR status code: " \o IntStr(page.status_code)])
    /\ pc' = "exit"
    /\ UNCHANGED <<args, url, page, tables, table_idx, df, gets, trace, test>>

\* return pd.read_html(page.content)
ReadHtml ==
    /\ pc = "check_status"
    /\ page.status_code = 200
    /\ tables' = page.content
    /\ trace' = Append(trace, "Table Extractor")
    /\ pc' = "select"
    /\ UNCHANGED <<args, url, page, table_idx, df, gets, stdout, test>>

\* table_idx = table_map[stats] + int(playoffs); df = tables[table_idx]
SelectTable ==
    /\ pc = "select"
    /\ table_idx' = table_idx_of(args.stats, args.playoffs)
    /\ trace' = Append(trace, "Table Selector")
    /\ IF InRange(tables, table_idx')
       THEN df' = tables[table_idx' + 1] /\ pc' = "remove_rows"
       ELSE df' = df /\ pc' = "IndexError"
    /\ UNCHANGED <<args, url, page, tables, gets, stdout, test>>

\* remove_rows(df): df is tables[table_idx], changed in place.
RemoveRows ==
    /\ pc = "remove_rows"
    /\ trace' = Append(trace, "Row Filter")
    /\ IF RowFilterKeys(df)
       THEN /\ df' = remove_rows(df)
            /\ tables' = [tables EXCEPT ![table_idx + 1] = df']
            /\ pc' = "remove_stats"
       ELSE df' = df /\ tables' = tables /\ pc' = "KeyError"
    /\ UNCHANGED <<args, url, page, table_idx, gets, stdout, test>>

\* remove_stats(df); return df
RemoveStats ==
    /\ pc = "remove_stats"
    /\ trace' = Append(trace, "Column Filter")
    /\ df' = remove_stats(df)
    /\ tables' = [tables EXCEPT ![table_idx + 1] = df']
    /\ pc' = "pprint_df"
    /\ UNCHANGED <<args, url, page, table_idx, gets, stdout, test>>

\* pprint_df(df, **args)
PprintDf ==
    /\ pc = "pprint_df"
    /\ trace' = Append(trace, "Renderer")
    /\ stdout' = Append(stdout,
                        [kind |-> "table",
                         table |-> pprint_df(df, args.first_name, args.last_name,
                                             args.stats, args.playoffs)])
    /\ pc' = "done"
    /\ UNCHANGED <<args, url, page, tables, table_idx, df, gets, test>>

Next ==
    \/ CreatePlayerUrl
    \/ RequestsGet
    \/ ExitOnStatus
    \/ ReadHtml
    \/ SelectTable
    \/ RemoveRows
    \/ RemoveStats
    \/ PprintDf

Spec == Init /\ [][Next]_vars

\* ------------------------------------------ the functions, called one by one

InitUnit == args = [first_name |-> "lebron", last_name |-> "james",
                    stats |-> "avg", playoffs |-> FALSE, n |-> 1] /\ Idle

CallCreatePlayerUrl ==
    /\ test.fn = "none"
    /\ \E f \in FirstNames, l \in LastNames, k \in Indices :
          test' = [fn |-> "create_player_url", first_name |-> f, last_name |-> l, n |-> k,
                   raised |-> IF l = "" THEN "IndexError" ELSE "",
                   out |-> IF l = "" THEN "" ELSE create_player_url(f, l, k)]
    /\ UNCHANGED mainVars

CallRemoveRows ==
    /\ test.fn = "none"
    /\ \E t \in RowInputs :
          test' = [fn |-> "remove_rows", in |-> t, calls |-> 1,
                   raised |-> IF RowFilterKeys(t) THEN "" ELSE "KeyError",
                   out |-> IF RowFilterKeys(t) THEN remove_rows(t) ELSE t]
    /\ UNCHANGED mainVars

\* remove_rows once more, on the table the first call left.
CallRemoveRowsAgain ==
    /\ test.fn = "remove_rows"
    /\ test.calls = 1
    /\ test.raised = ""
    /\ test' = [fn |-> "remove_rows", in |-> test.in, calls |-> 2, raised |-> "",
                once |-> test.out, out |-> remove_rows(test.out)]
    /\ UNCHANGED mainVars

CallRemoveStats ==
    /\ test.fn = "none"
    /\ \E t \in ColInputs :
          test' = [fn |-> "remove_stats", in |-> t, out |-> remove_stats(t)]
    /\ UNCHANGED mainVars

CallPprintDf ==
    /\ test.fn = "none"
    /\ \E t \in RenderInputs, p \in BOOLEAN :
          test' = [fn |-> "pprint_df", in |-> t, playoffs |-> p,
                   out |-> pprint_df(t, "lebron", "james", "avg", p)]
    /\ UNCHANGED mainVars

\* The cleaning of get_player_stats in the two copies of the script, on one
\* list of tables: both select and filter rows alike, then drop their columns.
CallBothCopies ==
    /\ test.fn = "none"
    /\ \E c \in Contents, st \in StatKeys, p \in BOOLEAN :
          /\ InRange(c, table_idx_of(st, p))
          /\ RowFilterKeys(c[table_idx_of(st, p) + 1])
          /\ test' = [fn |-> "get_player_stats", in |-> c, stats |-> st, playoffs |-> p,
                      out  |-> remove_stats(remove_rows(c[table_idx_of(st, p) + 1])),
                      root |-> root_remove_stats(remove_rows(c[table_idx_of(st, p) + 1]))]
    /\ UNCHANGED mainVars

NextUnit ==
    \/ CallCreatePlayerUrl
    \/ CallRemoveRows
    \/ CallRemoveRowsAgain
    \/ CallRemoveStats
    \/ CallPprintDf
    \/ CallBothCopies

SpecUnit == InitUnit /\ [][NextUnit]_vars

\* ================================================================= claims

\* A row the Row Filter keeps, read off the table it was given.
KeptRow(t, i) ==
    /\ CellEq(Column(t, "Lg")[i], "NBA")
    /\ ~isna(Column(t, "Season")[i])
    /\ ~StrContains(PyStr(Column(t, "Season")[i]), "season")

IsCareer(t, i) == CellEq(Column(t, "Season")[i], "Career")

RowsCalled == test.fn = "remove_rows" /\ test.calls = 1 /\ test.raised = ""

\* C1, as the spec states it: on the example table the Row Filter returns
\* exactly the 2020-21 row and the Career row.
C1_Original ==
    (RowsCalled /\ test.in = ExampleRows) =>
        /\ test.out.index = <<0, 4>>
        /\ test.out.values = <<test.in.values[1], test.in.values[5]>>

\* C1, amended: on the example table the Row Filter returns the 2020-21 row,
\* the "2-team totals" row and the Career row, in that order (the Spain row
\* and the blank row go; "2-team totals" does not contain "season"); with the
\* summary row labelled "2 seasons" instead, exactly the 2020-21 row and the
\* Career row are returned.
C1_ExampleOutput ==
    /\ (RowsCalled /\ test.in = ExampleRows) =>
          /\ test.out.columns = <<"Season", "Lg">>
          /\ test.out.index = <<0, 2, 4>>
          /\ test.out.values = <<<<S("2020-21"), S("NBA")>>,
                                 <<S("2-team totals"), S("NBA")>>,
                                 <<S("Career"), S("NBA")>>>>
    /\ (RowsCalled /\ test.in = ExampleSeasons) =>
          /\ test.out.columns = <<"Season", "Lg">>
          /\ test.out.index = <<0, 4>>
          /\ test.out.values = <<<<S("2020-21"), S("NBA")>>,
                                 <<S("Career"), S("NBA")>>>>

C1_Witness == RowsCalled /\ test.in = ExampleRows /\ NRows(test.out) = 3

\* C2, as the spec states it: after the Row Filter every row has Lg = "NBA"
\* and is a season row or the Career row, at most one Career row remains and
\* it is the last row.
C2_Original ==
    RowsCalled =>
        /\ \A i \in 1..NRows(test.out) :
              /\ CellEq(Column(test.out, "Lg")[i], "NBA")
              /\ ~isna(Column(test.out, "Season")[i])
              /\ ~StrContains(PyStr(Column(test.out, "Season")[i]), "season")
        /\ Cardinality({i \in 1..NRows(test.out) : IsCareer(test.out, i)}) <= 1
        /\ \A i \in 1..NRows(test.out) : IsCareer(test.out, i) => i = NRows(test.out)

\* C2, amended: after the Row Filter every row has Lg = "NBA" and a Season
\* that is present and does not contain "season", and the Career rows that
\* remain are exactly the input's Career rows with Lg = "NBA", each where it
\* stood among the kept rows: the filter neither limits them to one nor moves
\* one to the end.
C2_RowsAfterFilter ==
    RowsCalled =>
        /\ \A i \in 1..NRows(test.out) :
              /\ CellEq(Column(test.out, "Lg")[i], "NBA")
              /\ ~isna(Column(test.out, "Season")[i])
              /\ ~StrContains(PyStr(Column(test.out, "Season")[i]), "season")
        /\ {test.out.index[i] : i \in {k \in 1..NRows(test.out) : IsCareer(test.out, k)}}
             = {test.in.index[i] : i \in {k \in 1..NRows(test.in) :
                    IsCareer(test.in, k) /\ CellEq(Column(test.in, "Lg")[k], "NBA")}}
        /\ \A i, j \in 1..NRows(test.out) : i < j => test.out.index[i] < test.out.index[j]

\* Two Career rows remain, the first of them not last.
C2_Witness ==
    /\ RowsCalled
    /\ NRows(test.out) = 3
    /\ IsCareer(test.out, 1)
    /\ IsCareer(test.out, 2)
    /\ ~IsCareer(test.out, 3)
    /\ NRows(test.in) = 3

\* C9: remove_rows applied to its own output removes nothing more: the table
\* after the second call equals the table after the first.
C9_Idempotent ==
    (test.fn = "remove_rows" /\ test.calls = 2) =>
        /\ test.out.columns = test.once.columns
        /\ test.out.index = test.once.index
        /\ test.out.values = test.once.values

\* A second call on a table whose first call removed two rows and kept one.
C9_Witness ==
    /\ test.fn = "remove_rows"
    /\ test.calls = 2
    /\ NRows(test.in) = 3
    /\ NRows(test.once) = 1

TargetNames == {"2P", "3P", "DRB", "FG", "FT", "Lg"}

StartsWithUnnamed(col) == Len(col) >= Len("Unnamed:") /\ SubSeq(col, 1, Len("Unnamed:")) = "Unnamed:"

\* The table t without the columns at the positions where gone is TRUE.
WithoutColumns(t, gone) ==
    LET keep == [j \in 1..Len(t.columns) |-> ~gone[j]]
    IN  [columns |-> FilterPos(t.columns, keep, 1),
         index   |-> t.index,
         values  |-> [i \in 1..NRows(t) |-> FilterPos(t.values[i], keep, 1)]]

SameTable(a, b) ==
    /\ a.columns = b.columns
    /\ a.index = b.index
    /\ Len(a.values) = Len(b.values)
    /\ \A i \in 1..Len(a.values) : a.values[i] = b.values[i]

StatsCalled == test.fn = "remove_stats"

\* C3, as the spec states it: the Column Filter removes exactly the six named
\* columns and the columns whose name begins with "Unnamed:", and keeps every
\* other column in order with the rows unchanged.
C3_Original ==
    StatsCalled =>
        SameTable(test.out,
                  WithoutColumns(test.in,
                      [j \in 1..Len(test.in.columns) |->
                          \/ test.in.columns[j] \in TargetNames
                          \/ StartsWithUnnamed(test.in.columns[j])]))

\* C3, amended: the Column Filter removes exactly the columns named 2P, 3P,
\* DRB, FG, FT, Lg and the columns whose name contains "Unnamed:" anywhere
\* (not only as a prefix); every other column is kept in its relative order
\* with its cells, the rows and their labels unchanged; a table with none of
\* these columns comes back unchanged, and the example columns become
\* Season, FGA, 2PA.
C3_ColumnsAfterFilter ==
    StatsCalled =>
        /\ SameTable(test.out,
                     WithoutColumns(test.in,
                         [j \in 1..Len(test.in.columns) |->
                             \/ test.in.columns[j] \in TargetNames
                             \/ StrContains(test.in.columns[j], "Unnamed:")]))
        /\ (\A j \in 1..Len(test.in.columns) :
               /\ test.in.columns[j] \notin TargetNames
               /\ ~StrContains(test.in.columns[j], "Unnamed:"))
              => SameTable(test.out, test.in)
        /\ test.in.columns = ExampleCols => test.out.columns = <<"Season", "FGA", "2PA">>

\* A column that holds "Unnamed:" after other text is removed, its neighbour kept.
C3_Witness ==
    /\ StatsCalled
    /\ test.in.columns = <<"FGA", "Tm Unnamed: 3">>
    /\ test.out.columns = <<"FGA">>

Has(seq, x) == \E i \in 1..Len(seq) : seq[i] = x

\* The invocation is over: it returned, exited or raised.
Ended == pc \in {"done", "exit", "IndexError", "KeyError"}

C5_TableSelector ==
    /\ Has(trace, "Table Selector") =>
          table_idx = (CASE args.stats = "avg" /\ ~args.playoffs -> 0
                         [] args.stats = "avg" /\ args.playoffs  -> 1
                         [] args.stats = "tot" /\ ~args.playoffs -> 2
                         [] args.stats = "tot" /\ args.playoffs  -> 3
                         [] args.stats = "adv" /\ ~args.playoffs -> 4
                         [] args.stats = "adv" /\ args.playoffs  -> 5)
    /\ pc = "remove_rows" =>
          /\ table_idx < Len(page.content)
          /\ SameTable(df, page.content[table_idx + 1])
    /\ (pc = "IndexError" /\ Has(trace, "Table Selector")) =>
          /\ table_idx >= Len(page.content)
          /\ trace = <<"URL Builder", "Page Fetcher", "Table Extractor", "Table Selector">>
          /\ tables = page.content
          /\ df = NoDf
          /\ stdout = <<>>
          /\ ~ENABLED Next
    /\ Has(trace, "Row Filter") => table_idx < Len(page.content)

\* Playoff totals asked of a page with three tables.
C5_Witness ==
    /\ pc = "IndexError"
    /\ args.stats = "tot"
    /\ args.playoffs
    /\ Len(tables) = 3
    /\ table_idx = 3

Digit(d) == SubSeq("0123456789", d + 1, d + 1)

\* n >= 1 in decimal, left-padded with zeros to two digits (n below 1000).
Padded2(k) ==
    IF k < 10 THEN "0" \o Digit(k)
    ELSE IF k < 100 THEN Digit(k \div 10) \o Digit(k % 10)
    ELSE Digit(k \div 100) \o Digit((k \div 10) % 10) \o Digit(k % 10)

FirstChars(s, k) == IF Len(s) <= k THEN s ELSE SubSeq(s, 1, k)

\* C6: for non-empty names and n >= 1 create_player_url does not raise and
\* returns the players URL + '/' + first character of the last name + '/' +
\* its first 5 characters (all of it when shorter) + the first 2 characters of
\* the first name (all of it when shorter) + n padded to 2 digits + '.html',
\* the case of the names as passed.
C6_PlayerUrl ==
    (/\ test.fn = "create_player_url"
     /\ test.first_name # ""
     /\ test.last_name # ""
     /\ test.n >= 1) =>
        /\ test.raised = ""
        /\ test.out = "https://www.basketball-reference.com/players/"
                        \o SubSeq(test.last_name, 1, 1) \o "/"
                        \o FirstChars(test.last_name, 5)
                        \o FirstChars(test.first_name, 2)
                        \o Padded2(test.n) \o ".html"

\* Names shorter than the slices, and a name passed with capitals.
C6_Witness ==
    /\ test.fn = "create_player_url"
    /\ \/ /\ test.first_name = "j"
          /\ test.last_name = "wu"
          /\ test.n = 1
          /\ test.out = "https://www.basketball-reference.com/players/w/wuj01.html"
       \/ /\ test.first_name = "Kobe"
          /\ test.last_name = "Bryant"
          /\ test.n = 12
          /\ test.out = "https://www.basketball-reference.com/players/B/BryanKo12.html"

\* C7: pprint_df gives the career style to every row whose first cell is the
\* string "Career", wherever it stands, and to every other row style A
\* (bright_cyan) at an even 0-based position and style B (light_cyan1) at an
\* odd one; rows R0..R3 with R3 = Career get A, B, A, career.
C7_Banding ==
    test.fn = "pprint_df" =>
        /\ Len(test.out.rows) = NRows(test.in)
        /\ \A i \in 1..NRows(test.in) :
              test.out.rows[i].style =
                  (IF CellEq(test.in.values[i][1], "Career") THEN "steel_blue1"
                   ELSE IF (i - 1) % 2 = 0 THEN "bright_cyan" ELSE "light_cyan1")
        /\ (/\ NRows(test.in) = 4
            /\ \A i \in 1..3 : ~CellEq(test.in.values[i][1], "Career")
            /\ CellEq(test.in.values[4][1], "Career"))
              => [i \in 1..4 |-> test.out.rows[i].style]
                   = <<"bright_cyan", "light_cyan1", "bright_cyan", "steel_blue1">>

\* Four rows, the last one Career, and a Career row at an even position.
C7_Witness ==
    /\ test.fn = "pprint_df"
    /\ NRows(test.in) = 4
    /\ \A i \in 1..3 : ~CellEq(test.in.values[i][1], "Career")
    /\ CellEq(test.in.values[4][1], "Career")
    /\ test.in.index = <<0, 1, 2, 3>>

\* C8, as the spec states it: an invocation with HTTP 200 and the selected
\* index in range runs all seven stages, so it has ended only once rendered.
C8_Original ==
    (/\ page.status_code = 200
     /\ Has(trace, "Table Selector")
     /\ table_idx < Len(page.content)
     /\ Ended) =>
        /\ pc = "done"
        /\ trace = <<"URL Builder", "Page Fetcher", "Table Extractor",
                     "Table Selector", "Row Filter", "Column Filter", "Renderer">>

\* C8, amended: an invocation with HTTP 200, the selected index in range and
\* a selected table that has the columns Lg and Season ends rendered (without
\* them the Row Filter raises KeyError); an invocation that ends rendered ran URL Builder, Page Fetcher,
\* Table Extractor, Table Selector, Row Filter, Column Filter, Renderer once
\* each in this order and printed one table: one row per row of the selected
\* table that the Row Filter keeps, one column per column the Column Filter
\* keeps, under a title that contains "Regular Season" when playoffs is false
\* and "Playoffs" when it is true; six tables with one NBA season row and one
\* Career row in table 0, stats=avg, playoffs=false: 2 rows, "Regular Season".
C8_EndToEnd ==
    /\ (/\ page.status_code = 200
        /\ Has(trace, "Table Selector")
        /\ table_idx < Len(page.content)
        /\ RowFilterKeys(page.content[table_idx + 1])
        /\ Ended) => pc = "done"
    /\ pc = "done" =>
        LET sel == page.content[table_idx + 1]
            out == stdout[1].table
        IN  /\ trace = <<"URL Builder", "Page Fetcher", "Table Extractor",
                         "Table Selector", "Row Filter", "Column Filter", "Renderer">>
            /\ gets = 1
            /\ page.status_code = 200
            /\ table_idx < Len(page.content)
            /\ Len(stdout) = 1
            /\ stdout[1].kind = "table"
            /\ Len(out.rows) = Cardinality({i \in 1..NRows(sel) : KeptRow(sel, i)})
            /\ out.columns =
                  FilterPos(sel.columns,
                            [j \in 1..Len(sel.columns) |->
                                /\ sel.columns[j] \notin TargetNames
                                /\ ~StrContains(sel.columns[j], "Unnamed:")], 1)
            /\ \A i \in 1..Len(out.rows) : Len(out.rows[i].cells) = Len(out.columns)
            /\ ~args.playoffs => StrContains(out.title, "Regular Season")
            /\ args.playoffs => StrContains(out.title, "Playoffs")
            /\ (/\ Len(page.content) = 6
                /\ SameTable(page.content[1], MkDf(AvgCols, TwoRows))
                /\ args.stats = "avg"
                /\ ~args.playoffs)
                  => Len(out.rows) = 2 /\ StrContains(out.title, "Regular Season")

\* The end-to-end scenario of the spec, rendered.
C8_Witness ==
    /\ pc = "done"
    /\ Len(page.content) = 6
    /\ SameTable(page.content[1], MkDf(AvgCols, TwoRows))
    /\ args.stats = "avg"
    /\ ~args.playoffs
    /\ Len(stdout[1].table.rows) = 2

\* C10: the two copies of the script return the same cleaned table, the same
\* rows and the same columns, for the same tables, stats and playoffs.
C10_CopiesAgree ==
    test.fn = "get_player_stats" =>
        /\ test.out.columns = test.root.columns
        /\ test.out.index = test.root.index
        /\ test.out.values = test.root.values

====
